---- MODULE Spec2Model ----
(***************************************************************************)
(* Verification model of the video processing pipeline:                    *)
(*   - the Extraction Worker's POST /transcribe handler (HMAC check,       *)
(*     download, transcode, STT, cleanup),                                  *)
(*   - the Dispatch Client's retry loop (transcribeVideo),                  *)
(*   - the Scheduler/Driver batch run (GET /api/cron/process-new-videos)    *)
(*     over the Item Store.                                                 *)
(* Text is modelled as sequences of one-character strings so that the       *)
(* substring tests of the code are computed, not assumed.                   *)
(***************************************************************************)
EXTENDS Integers, Sequences, FiniteSets, TLC

VARIABLES wk, fs, clock, cl, videos, transcripts, analysis, catalog, run, faultsLeft,
          tr, an, ag

vars == <<wk, fs, clock, cl, videos, transcripts, analysis, catalog, run, faultsLeft,
          tr, an, ag>>

workerVars == <<wk, fs, clock>>
clientVars == <<cl>>
driverVars == <<videos, transcripts, analysis, catalog, run, faultsLeft>>
manualVars == <<tr, an>>
agentVars == <<ag>>

-----------------------------------------------------------------------------
(* Text helpers                                                             *)

\* String.prototype.includes
Includes(s, p) ==
    \E i \in 1..(Len(s) - Len(p) + 1) : SubSeq(s, i, i + Len(p) - 1) = p

Digit(d) ==
    CASE d = 0 -> "0" [] d = 1 -> "1" [] d = 2 -> "2" [] d = 3 -> "3" [] d = 4 -> "4"
      [] d = 5 -> "5" [] d = 6 -> "6" [] d = 7 -> "7" [] d = 8 -> "8" [] d = 9 -> "9"

RECURSIVE ToStr(_)
\* decimal rendering of a non-negative number inside a template literal
ToStr(n) == IF n < 10 THEN <<Digit(n)>> ELSE ToStr(n \div 10) \o <<Digit(n % 10)>>

TxtInvalidSignature ==
    <<"I","n","v","a","l","i","d"," ","s","i","g","n","a","t","u","r","e">>

TxtMissingSignature ==
    <<"M","i","s","s","i","n","g"," ","s","i","g","n","a","t","u","r","e">>

TxtMissingVideoUrl ==
    <<"M","i","s","s","i","n","g"," ","v","i","d","e","o","U","r","l"," ","p","a","r","a","m",
      "e","t","e","r">>

TxtTranscriptionFailed ==
    <<"T","r","a","n","s","c","r","i","p","t","i","o","n"," ","f","a","i","l","e","d">>

TxtDeepgramFailed ==
    <<"D","e","e","p","g","r","a","m"," ","t","r","a","n","s","c","r","i","p","t","i","o","n",
      " ","f","a","i","l","e","d">>

TxtDeepgramConnect ==
    <<"F","a","i","l","e","d"," ","t","o"," ","c","o","n","n","e","c","t"," ","t","o"," ","D",
      "e","e","p","g","r","a","m"," ","A","P","I">>

TxtRangeError ==
    <<"I","n","p","u","t"," ","b","u","f","f","e","r","s"," ","m","u","s","t"," ","h","a","v",
      "e"," ","t","h","e"," ","s","a","m","e"," ","b","y","t","e"," ","l","e","n","g","t","h">>

TxtYtdlpFailed ==
    <<"y","t","-","d","l","p"," ","f","a","i","l","e","d"," ","w","i","t","h"," ","c","o","d",
      "e"," ">>

TxtFfmpegFailed ==
    <<"f","f","m","p","e","g"," ","f","a","i","l","e","d"," ","w","i","t","h"," ","c","o","d",
      "e"," ">>

TxtEnoent ==
    <<"E","N","O","E","N","T",":"," ","n","o"," ","s","u","c","h"," ","f","i","l","e"," ","o",
      "r"," ","d","i","r","e","c","t","o","r","y">>

TxtFetchFailed ==
    <<"f","e","t","c","h"," ","f","a","i","l","e","d">>

TxtTimeout ==
    <<"T","h","e"," ","o","p","e","r","a","t","i","o","n"," ","w","a","s"," ","a","b","o","r",
      "t","e","d"," ","d","u","e"," ","t","o"," ","t","i","m","e","o","u","t">>

TxtDeepgramAuth ==
    <<"{","\"","e","r","r","_","c","o","d","e","\"",":","\"","I","N","V","A","L","I","D","_",
      "A","U","T","H","\"","}">>

TxtDeepgramReqId ==
    <<"{","\"","e","r","r","_","c","o","d","e","\"",":","\"","B","a","d"," ","R","e","q","u",
      "e","s","t","\"",",","\"","r","e","q","u","e","s","t","_","i","d","\"",":","\"","7","d",
      "4","0","1","c","\"","}">>

TxtMediaWorkerError ==
    <<"M","e","d","i","a"," ","W","o","r","k","e","r"," ","e","r","r","o","r",":"," ">>

TxtDash ==
    <<" ","-"," ">>

TxtHTTP ==
    <<"H","T","T","P"," ">>

TxtColon ==
    <<":"," ">>

TxtBadGateway ==
    <<"B","a","d"," ","G","a","t","e","w","a","y">>

TxtFailedAfter ==
    <<"T","r","a","n","s","c","r","i","p","t","i","o","n"," ","f","a","i","l","e","d"," ","a",
      "f","t","e","r"," ">>

TxtAttempts ==
    <<" ","a","t","t","e","m","p","t","s",":"," ">>

TxtUnknownError ==
    <<"U","n","k","n","o","w","n"," ","e","r","r","o","r">>

Txt400 ==
    <<"4","0","0">>

Txt401 ==
    <<"4","0","1">>

-----------------------------------------------------------------------------
(* Dispatch protocol: request bodies, HMAC signatures                       *)

MaxReqs == 2
MaxClock == 1

\* length of a hex-encoded SHA-256 digest
HexDigestLen == 64

Reqs == 1..MaxReqs

Secrets == {"k1", "k2"}

\* the worker's pre-shared secret (process.env.MEDIA_WORKER_SECRET)
MEDIA_WORKER_SECRET == "k1"

VideoUrls == {"", "https://www.youtube.com/watch?v=a"}

Bodies == [videoUrl : VideoUrls, langHint : {"en"}, mode : {"prerecorded"}]

\* JSON.stringify of the request body: the fields in declaration order
JSONstringify(body) == <<body.videoUrl, body.langHint, body.mode>>

\* HMAC-SHA256 hex digest: a value determined by (payload, secret), 64 characters long
generateSignature(body, secret) ==
    [mac |-> <<JSONstringify(body), secret>>, len |-> HexDigestLen]

NoHeader == [mac |-> <<>>, len |-> 0]

\* a header value cut to its first n characters
Truncated(sig, n) == [mac |-> <<sig.mac, n>>, len |-> n]

\* every X-Signature header value a request may carry: none, a digest made by some
\* signer over some body, or such a digest cut short (a different length)
Headers ==
    {NoHeader}
      \cup {generateSignature(b, s) : b \in Bodies, s \in Secrets}
      \cup {Truncated(generateSignature(b, MEDIA_WORKER_SECRET), 10) : b \in Bodies}

\* crypto.timingSafeEqual: throws a RangeError when the byte lengths differ
timingSafeEqual(a, b) ==
    IF a.len # b.len THEN "throw" ELSE IF a = b THEN "true" ELSE "false"

verifySignature(body, receivedSignature, secret) ==
    timingSafeEqual(generateSignature(body, secret), receivedSignature)

NoText == <<>>

Response(status, error, details) ==
    [status |-> status, error |-> error, details |-> details, text |-> NoText]

\* res.json(response) of a successful transcription
Success(text) == [status |-> 200, error |-> NoText, details |-> NoText, text |-> text]

NoResp == [status |-> 0, error |-> NoText, details |-> NoText, text |-> NoText]

\* AuthAnswer with the comparison of the signature left out: any header passes
AuthAnswerUnverified(body, receivedSignature) ==
    IF receivedSignature = NoHeader
    THEN Response(401, TxtMissingSignature, NoText)
    ELSE IF body.videoUrl = "" THEN Response(400, TxtMissingVideoUrl, NoText)
    ELSE NoResp

\* Steps 1-2 of the handler, up to the creation of the temp file paths: the
\* response that ends the request, or NoResp when the request is accepted
AuthAnswer(body, receivedSignature) ==
    IF receivedSignature = NoHeader
    THEN Response(401, TxtMissingSignature, NoText)
    ELSE LET v == verifySignature(body, receivedSignature, MEDIA_WORKER_SECRET) IN
         IF v = "throw" THEN Response(500, TxtTranscriptionFailed, TxtRangeError)
         ELSE IF v = "false" THEN Response(401, TxtInvalidSignature, NoText)
         ELSE IF body.videoUrl = "" THEN Response(400, TxtMissingVideoUrl, NoText)
         ELSE NoResp

-----------------------------------------------------------------------------
(* Extraction Worker: app.post('/transcribe')                               *)

NoFile == [ts |-> -1, ext |-> "none"]

TempFile(timestamp, ext) == [ts |-> timestamp, ext |-> ext]

\* the file yt-dlp downloads into before it renames it to the -o path: without
\* --no-part it writes <path>.part, and leaves it behind when the download fails
PartFile(file) == [file EXCEPT !.ext = "webm.part"]

\* what a failed yt-dlp run leaves on disk: nothing, or the .part file
LeftBehind(file) == {{}, {PartFile(file)}}

ExitCodes == {1}

SttTexts == {<<>>, <<"h","i">>}

\* bodies of a non-2xx Deepgram reply (free text chosen by the backend)
DeepgramErrorTexts == {TxtDeepgramAuth, TxtDeepgramReqId}

\* the catch block's answer to a failed yt-dlp run
DownloadFailure(code) == Response(500, TxtTranscriptionFailed, TxtYtdlpFailed \o ToStr(code))

\* the catch block's answer to a failed ffmpeg run
TranscodeFailure(code) == Response(500, TxtTranscriptionFailed, TxtFfmpegFailed \o ToStr(code))

\* the catch block's answer when fs.readFile finds no waveform
ReadFailure == Response(500, TxtTranscriptionFailed, TxtEnoent)

\* the answer to a non-2xx Deepgram reply carrying errorText
SttHttpFailure(errorText) == Response(500, TxtDeepgramFailed, errorText)

\* the answers to a Deepgram request that could not be sent (either build of the worker)
SttFetchFailures ==
    {Response(500, e, TxtFetchFailed) : e \in {TxtTranscriptionFailed, TxtDeepgramConnect}}

IdleReq ==
    [pc |-> "idle", body |-> [videoUrl |-> "", langHint |-> "en", mode |-> "prerecorded"],
     sig |-> NoHeader, tempAudioFile |-> NoFile, tempWavFile |-> NoFile,
     resp |-> NoResp, work |-> {}]

WorkerInit ==
    /\ wk = [r \in Reqs |-> IdleReq]
    /\ fs = {}
    /\ clock = 0

\* a request reaches the handler, which runs without suspending up to the spawn of
\* yt-dlp (steps 1-3); a request answered before that leaves through a finally
\* block that has no file to unlink and so never suspends; requests are numbered in
\* the order in which they arrive
WReceive(r) ==
    /\ wk[r].pc = "idle"
    /\ \A q \in Reqs : q < r => wk[q].pc # "idle"
    /\ \E b \in Bodies, h \in Headers :
         LET a == AuthAnswer(b, h) IN
         IF a # NoResp
         THEN wk' = [wk EXCEPT ![r].pc = "done", ![r].body = b, ![r].sig = h, ![r].resp = a]
         ELSE wk' = [wk EXCEPT ![r].pc = "download", ![r].body = b, ![r].sig = h,
                               ![r].tempAudioFile = TempFile(clock, "webm"),
                               ![r].tempWavFile = TempFile(clock, "wav"),
                               ![r].work = @ \cup {"download"}]
    /\ UNCHANGED <<fs, clock, clientVars, driverVars, manualVars, agentVars>>

\* Step 4: yt-dlp closes
WDownload(r) ==
    /\ wk[r].pc = "download"
    /\ \/ /\ fs' = fs \cup {wk[r].tempAudioFile}
          /\ wk' = [wk EXCEPT ![r].pc = "transcode", ![r].work = @ \cup {"transcode"}]
       \/ \E code \in ExitCodes, left \in LeftBehind(wk[r].tempAudioFile) :
            /\ fs' = fs \cup left
            /\ wk' = [wk EXCEPT ![r].pc = "finally",
                                ![r].resp = DownloadFailure(code)]
    /\ UNCHANGED <<clock, clientVars, driverVars, manualVars, agentVars>>

\* Step 5: ffmpeg closes
WTranscode(r) ==
    /\ wk[r].pc = "transcode"
    /\ \/ /\ wk[r].tempAudioFile \in fs
          /\ fs' = fs \cup {wk[r].tempWavFile}
          /\ wk' = [wk EXCEPT ![r].pc = "read"]
       \/ \E code \in ExitCodes, partial \in BOOLEAN :
            /\ fs' = IF partial THEN fs \cup {wk[r].tempWavFile} ELSE fs
            /\ wk' = [wk EXCEPT ![r].pc = "finally",
                                ![r].resp = TranscodeFailure(code)]
    /\ UNCHANGED <<clock, clientVars, driverVars, manualVars, agentVars>>

\* Step 6: fs.readFile(tempWavFile), then the request to Deepgram is sent
WRead(r) ==
    /\ wk[r].pc = "read"
    /\ IF wk[r].tempWavFile \in fs
       THEN wk' = [wk EXCEPT ![r].pc = "stt", ![r].work = @ \cup {"stt"}]
       ELSE wk' = [wk EXCEPT ![r].pc = "finally",
                             ![r].resp = ReadFailure]
    /\ UNCHANGED <<fs, clock, clientVars, driverVars, manualVars, agentVars>>

\* Steps 7-8: Deepgram answers
WStt(r) ==
    /\ wk[r].pc = "stt"
    /\ \/ \E t \in SttTexts :
            wk' = [wk EXCEPT ![r].pc = "finally", ![r].resp = Success(t)]
       \/ \E e \in DeepgramErrorTexts :
            wk' = [wk EXCEPT ![r].pc = "finally",
                             ![r].resp = SttHttpFailure(e)]
       \/ \E a \in SttFetchFailures :
            wk' = [wk EXCEPT ![r].pc = "finally", ![r].resp = a]
    /\ UNCHANGED <<fs, clock, clientVars, driverVars, manualVars, agentVars>>

\* Step 9, first half: unlink the downloaded audio (errors are logged and dropped)
WFinallyAudio(r) ==
    /\ wk[r].pc = "finally"
    /\ fs' = IF wk[r].tempAudioFile # NoFile THEN fs \ {wk[r].tempAudioFile} ELSE fs
    /\ wk' = [wk EXCEPT ![r].pc = "finally2"]
    /\ UNCHANGED <<clock, clientVars, driverVars, manualVars, agentVars>>

\* Step 9, second half: unlink the waveform
WFinallyWav(r) ==
    /\ wk[r].pc = "finally2"
    /\ fs' = IF wk[r].tempWavFile # NoFile THEN fs \ {wk[r].tempWavFile} ELSE fs
    /\ wk' = [wk EXCEPT ![r].pc = "done"]
    /\ UNCHANGED <<clock, clientVars, driverVars, manualVars, agentVars>>

\* Date.now() advances (it is read only when a request is received)
WTick ==
    /\ clock < MaxClock
    /\ \E r \in Reqs : wk[r].pc = "idle"
    /\ clock' = clock + 1
    /\ UNCHANGED <<wk, fs, clientVars, driverVars, manualVars, agentVars>>

WorkerNext ==
    \/ \E r \in Reqs :
         \/ WReceive(r) \/ WDownload(r) \/ WTranscode(r)
         \/ WRead(r) \/ WStt(r) \/ WFinallyAudio(r) \/ WFinallyWav(r)
    \/ WTick

\* the handler of request r is between accepting the request and returning
InProgress(r) == wk[r].pc \notin {"idle", "done"}

\* the local files a request with these temp paths can have materialised
Materialised(r) ==
    IF wk[r].tempAudioFile = NoFile THEN {}
    ELSE {wk[r].tempAudioFile, PartFile(wk[r].tempAudioFile), wk[r].tempWavFile}

\* C17: for every accepted request, on every exit path of the handler, every
\* intermediate file the request materialised locally has been deleted by the time
\* the handler has finished (a file found under one of its names is one that a
\* request of the same timestamp, still in progress, has written since)
C17_GuaranteedCleanup ==
    \A r \in Reqs :
      wk[r].pc = "done" =>
        \A f \in Materialised(r) \cap fs :
          \E q \in Reqs \ {r} : InProgress(q) /\ f \in Materialised(q)

\* the intermediate file paths request r was given
TempPaths(r) == {wk[r].tempAudioFile, wk[r].tempWavFile} \ {NoFile}

\* C30: two accepted requests handled at the same time never use the same
\* intermediate file path, and the cleanup of one never deletes a file of another
\* request that is still in progress
C30_DistinctTempPaths ==
    /\ [](\A r, q \in Reqs :
            (r # q /\ InProgress(r) /\ InProgress(q)) => TempPaths(r) \cap TempPaths(q) = {})
    /\ [][\A r, q \in Reqs :
            (r # q /\ wk[r].pc \in {"finally", "finally2"} /\ wk'[r].pc # wk[r].pc
               /\ InProgress(q))
              => (fs \ fs') \cap TempPaths(q) = {}]_vars

-----------------------------------------------------------------------------
(* Dispatch Client: transcribeVideo                                         *)

MaxRetries == 2

\* the default of the retries parameter
DefaultRetries == 2

BaseDelayMs == 1000

MaxDelayMs == 60000

Min(a, b) == IF a < b THEN a ELSE b

\* a backoff that keeps doubling
DelayUncapped(attempt) == BaseDelayMs * 2 ^ (attempt - 1)

\* the backoff slept before attempt number `attempt` (attempt > 0)
Delay(attempt) == Min(BaseDelayMs * 2 ^ (attempt - 1), MaxDelayMs)

\* every answer the handler can give to a request it has accepted
AcceptedAnswers ==
    {Success(t) : t \in SttTexts}
      \cup {DownloadFailure(c) : c \in ExitCodes}
      \cup {TranscodeFailure(c) : c \in ExitCodes}
      \cup {ReadFailure}
      \cup {SttHttpFailure(e) : e \in DeepgramErrorTexts}
      \cup SttFetchFailures

\* every answer the worker can give to the request (body, signature)
WorkerAnswers(body, signature) ==
    IF AuthAnswer(body, signature) # NoResp
    THEN {AuthAnswer(body, signature)}
    ELSE AcceptedAnswers

\* an error answer whose body is not JSON (an intermediary's error page):
\* response.json() rejects and the fallback text is used
GatewayAnswers == {[status |-> 502, statusText |-> TxtBadGateway]}

\* new Error(`Media Worker error: ${errorData.error}${errorData.details ? ...}`)
ErrorMessage(errorData) ==
    TxtMediaWorkerError \o errorData.error
      \o (IF errorData.details # NoText THEN TxtDash \o errorData.details ELSE NoText)

\* the fallback errorData when the error body cannot be parsed
FallbackError(status, statusText) ==
    [error |-> TxtHTTP \o ToStr(status) \o TxtColon \o statusText, details |-> NoText]

\* the test of the catch block that ends the retry loop early
NonRetryable(message) ==
    \/ Includes(message, TxtInvalidSignature)
    \/ Includes(message, Txt400)
    \/ Includes(message, Txt401)

\* the error thrown after the loop
FinalError(retries, lastError) ==
    TxtFailedAfter \o ToStr(retries + 1) \o TxtAttempts \o lastError

IdleClient ==
    [pc |-> "idle", videoUrl |-> "", secret |-> MEDIA_WORKER_SECRET, retries |-> 0,
     attempt |-> 0, made |-> 0, lastError |-> NoText, outs |-> <<>>, delays |-> <<>>,
     result |-> NoResp, error |-> NoText]

ClientInit == cl = IdleClient

ClientBody == [videoUrl |-> cl.videoUrl, langHint |-> "en", mode |-> "prerecorded"]

\* transcribeVideo(request, retries) is called: body built and signed, attempt = 0
CStart ==
    /\ cl.pc = "idle"
    /\ \E u \in VideoUrls, s \in Secrets, n \in 0..MaxRetries :
         cl' = [cl EXCEPT !.pc = "fetch", !.videoUrl = u, !.secret = s, !.retries = n]
    /\ UNCHANGED <<workerVars, driverVars, manualVars, agentVars>>

\* the catch block of one attempt, then the loop's increment and test
Catch(c, kind, status, message) ==
    LET c1 == [c EXCEPT !.made = @ + 1, !.lastError = message,
                        !.outs = Append(@, [kind |-> kind, status |-> status])] IN
    IF NonRetryable(message)
    THEN [c1 EXCEPT !.pc = "thrown", !.error = FinalError(c.retries, message)]
    ELSE IF c.attempt + 1 <= c.retries
         THEN [c1 EXCEPT !.pc = "delay", !.attempt = @ + 1]
         ELSE [c1 EXCEPT !.pc = "thrown", !.attempt = @ + 1,
                         !.error = FinalError(c.retries, message)]

\* the backoff sleep at the top of the loop body (attempt > 0)
CBackoff ==
    /\ cl.pc = "delay"
    /\ cl' = [cl EXCEPT !.pc = "fetch", !.delays = Append(@, Delay(cl.attempt))]
    /\ UNCHANGED <<workerVars, driverVars, manualVars, agentVars>>

\* one attempt: the fetch and what the try/catch does with its outcome
CFetch ==
    /\ cl.pc = "fetch"
    /\ \/ \E a \in WorkerAnswers(ClientBody, generateSignature(ClientBody, cl.secret)) :
            IF a.status = 200
            THEN cl' = [cl EXCEPT !.pc = "returned", !.made = @ + 1, !.result = a,
                                  !.outs = Append(@, [kind |-> "ok", status |-> 200])]
            ELSE cl' = Catch(cl, "http", a.status, ErrorMessage(a))
       \/ \E g \in GatewayAnswers :
            cl' = Catch(cl, "http", g.status,
                        ErrorMessage(FallbackError(g.status, g.statusText)))
       \/ cl' = Catch(cl, "network", 0, TxtFetchFailed)
       \/ cl' = Catch(cl, "timeout", 0, TxtTimeout)
    /\ UNCHANGED <<workerVars, driverVars, manualVars, agentVars>>

ClientNext == CStart \/ CBackoff \/ CFetch

\* retries of a call that is followed until its backoff has reached the cap
MaxBackoffRetries == 8

\* transcribeVideo(request, retries) is called with the worker's own secret
BStart ==
    /\ cl.pc = "idle"
    /\ \E n \in 0..MaxBackoffRetries :
         cl' = [cl EXCEPT !.pc = "fetch", !.videoUrl = "https://www.youtube.com/watch?v=a",
                      !.retries = n]
    /\ UNCHANGED <<workerVars, driverVars, manualVars, agentVars>>

\* one attempt against a worker that is hard to reach: the fetch is answered 200,
\* rejects with a network error, or is aborted by its timeout
BFetch ==
    /\ cl.pc = "fetch"
    /\ \/ cl' = [cl EXCEPT !.pc = "returned", !.made = @ + 1, !.result = Success(<<"h", "i">>),
                            !.outs = Append(@, [kind |-> "ok", status |-> 200])]
       \/ cl' = Catch(cl, "network", 0, TxtFetchFailed)
       \/ cl' = Catch(cl, "timeout", 0, TxtTimeout)
    /\ UNCHANGED <<workerVars, driverVars, manualVars, agentVars>>

BackoffNext == BStart \/ CBackoff \/ BFetch

-----------------------------------------------------------------------------
(* Dispatch as the Driver sees it: the retry loop run to its end            *)

\* what one attempt can come to: an answer of the worker to an accepted or
\* rejected request, an unparsable error page, a network error or a timeout
AttemptOutcomes(body, signature) ==
    {[ok |-> a.status = 200, text |-> a.text,
      message |-> IF a.status = 200 THEN NoText ELSE ErrorMessage(a)] :
        a \in WorkerAnswers(body, signature)}
      \cup {[ok |-> FALSE, text |-> NoText,
             message |-> ErrorMessage(FallbackError(g.status, g.statusText))] :
               g \in GatewayAnswers}
      \cup {[ok |-> FALSE, text |-> NoText, message |-> m] : m \in {TxtFetchFailed, TxtTimeout}}

RECURSIVE RetryLoop(_, _, _, _)
\* the for loop of transcribeVideo over a script of attempt outcomes:
\* [ok, text, error, made] when the call returns or throws
RetryLoop(script, retries, attempt, lastError) ==
    IF attempt > retries
    THEN [ok |-> FALSE, text |-> NoText, made |-> attempt,
          error |-> FinalError(retries, lastError)]
    ELSE LET o == script[attempt + 1] IN
         IF o.ok
         THEN [ok |-> TRUE, text |-> o.text, made |-> attempt + 1, error |-> NoText]
         ELSE IF NonRetryable(o.message)
              THEN [ok |-> FALSE, text |-> NoText, made |-> attempt + 1,
                    error |-> FinalError(retries, o.message)]
              ELSE RetryLoop(script, retries, attempt + 1, o.message)

transcribeVideo(script, retries) == RetryLoop(script, retries, 0, TxtUnknownError)

-----------------------------------------------------------------------------
(* Item Store (lib/supabase.ts): tables as sets of rows                     *)

\* items of the catalog in a single batch run
MaxItems == 2

\* items of the catalog when two runs overlap
MaxOverlapItems == 1
\* ids in the catalog when the pipeline is run twice in sequence
MaxTwiceItems == 1

\* store calls that may fail in one behaviour
MaxFaults == 1

\* two invocations of the batch endpoint, which may overlap in time
Runs == {"runA", "runB"}

\* videos.published_at; ids are numbered in publication order
PublishedAt(id) == id

\* the text of a store or API error
TxtDbError == <<"connection error">>

VideoRow(id, status) ==
    [id |-> id, status |-> status, notes |-> NoText, processed_at |-> FALSE]

Exists(rows, id) == \E v \in rows : v.id = id

\* the status column of a video, "absent" when the table has no such row
StatusOf(rows, id) ==
    IF Exists(rows, id) THEN (CHOOSE v \in rows : v.id = id).status ELSE "absent"

NotesOf(rows, id) ==
    IF Exists(rows, id) THEN (CHOOSE v \in rows : v.id = id).notes ELSE NoText

\* a lookup that finds no id of the list in the table
selectVideoIdsNone(rows, videoIds) == {}

selectVideoIds(rows, videoIds) == {v.id : v \in {w \in rows : w.id \in videoIds}}

\* insert ... on conflict (id) do update: every column is overwritten
upsertVideo(rows, id, status) ==
    {v \in rows : v.id # id} \cup {VideoRow(id, status)}

markVideoSucceeded(rows, videoId) ==
    {IF v.id = videoId THEN [v EXCEPT !.status = "succeeded", !.processed_at = TRUE] ELSE v :
       v \in rows}

\* an update that changes no row
markVideoFailedLost(rows, videoId, errorMessage) == rows

markVideoFailed(rows, videoId, errorMessage) ==
    {IF v.id = videoId
     THEN [v EXCEPT !.status = "failed", !.processed_at = TRUE, !.notes = errorMessage]
     ELSE v : v \in rows}

RECURSIVE OrderDesc(_)
\* ids ordered by published_at, newest first
OrderDesc(S) ==
    IF S = {} THEN <<>>
    ELSE LET m == CHOOSE x \in S : \A y \in S : PublishedAt(y) <= PublishedAt(x)
         IN <<m>> \o OrderDesc(S \ {m})

\* a listing ordered the other way round, oldest first
getVideosByStatusAscending(rows, status) ==
    LET s == OrderDesc({v.id : v \in {w \in rows : w.status = status}})
    IN [k \in 1..Len(s) |-> s[Len(s) + 1 - k]]

\* a listing that returns no row
getVideosByStatusNone(rows, status) == <<>>

getVideosByStatus(rows, status) == OrderDesc({v.id : v \in {w \in rows : w.status = status}})

\* a write that stores nothing
insertTranscriptLost(rows, video_id, text) == rows

\* a plain insert, without the conflict target
insertTranscriptNoConflict(rows, video_id, text) ==
    rows \cup {[video_id |-> video_id, text |-> text]}

\* upsert(..., {onConflict: 'video_id'})
insertTranscript(rows, video_id, text) ==
    {t \in rows : t.video_id # video_id} \cup {[video_id |-> video_id, text |-> text]}

HasTranscript(rows, videoId) == \E t \in rows : t.video_id = videoId

\* the text of the transcript row (read only where HasTranscript holds)
fetchTranscriptByVideoId(rows, videoId) == (CHOOSE t \in rows : t.video_id = videoId).text

\* insert ... on conflict (video_id, agent_type) do update, from the agent's output
upsertAnalysis(rows, video_id, agent_type, output) ==
    {a \in rows : ~(a.video_id = video_id /\ a.agent_type = agent_type)}
      \cup {[video_id |-> video_id, agent_type |-> agent_type, players |-> output.players,
              summary |-> output.summary, confidence |-> output.confidence]}

\* the row of the analysis table for an item and an agent type
AnalysisOf(rows, video_id, agent_type) ==
    {a \in rows : a.video_id = video_id /\ a.agent_type = agent_type}

HasAnalysis(rows, video_id, agent_type) ==
    \E a \in rows : a.video_id = video_id /\ a.agent_type = agent_type

-----------------------------------------------------------------------------
(* Scheduler/Driver: GET /api/cron/process-new-videos                       *)

\* the request the driver dispatches for a video and its signature
DriverBody ==
    [videoUrl |-> "https://www.youtube.com/watch?v=a", langHint |-> "en",
     mode |-> "prerecorded"]

\* the attempt outcomes the driver's dispatches are run against: both transcript
\* texts, a failed download and a Deepgram error reply
DriverAttemptOutcomes ==
    {o \in AttemptOutcomes(DriverBody, generateSignature(DriverBody, MEDIA_WORKER_SECRET)) :
       \/ o.ok
       \/ o.message = ErrorMessage(DownloadFailure(1))
       \/ o.message = ErrorMessage(SttHttpFailure(TxtDeepgramReqId))}

\* what a call transcribeVideo({videoUrl, langHint, mode}) can return or throw
DriverDispatchResults ==
    {[ok |-> res.ok, text |-> res.text, error |-> res.error,
      exhausted |-> res.made = DefaultRetries + 1] :
       res \in {transcribeVideo(s, DefaultRetries) :
                  s \in [1..(DefaultRetries + 1) -> DriverAttemptOutcomes]}}

\* a finding (PlayerSchema): the optional fields are left out
Player(name, urgency) == [name |-> name, urgency |-> urgency]

Levels == {"HIGH", "MEDIUM", "LOW"}

\* the object the model's terminal text parses to; `present` lists the keys it has,
\* json is FALSE when the text is not JSON at all
ModelOutput(json, present, players, confidence) ==
    [json |-> json, present |-> present, players |-> players,
     summary |-> IF "summary" \in present THEN "two findings" ELSE "",
     confidence |-> confidence]

AllKeys == {"players", "summary", "confidence"}

\* what the model may end an invocation with: two well-formed objects, an object
\* without the confidence key, and text that is not JSON
ModelOutputs ==
    {ModelOutput(TRUE, AllKeys, <<Player("Ant", "MEDIUM")>>, "HIGH"),
     ModelOutput(TRUE, AllKeys, <<Player("Bo", "HIGH"), Player("Cy", "LOW")>>, "MEDIUM"),
     ModelOutput(TRUE, AllKeys \ {"confidence"}, <<Player("Di", "HIGH")>>, ""),
     ModelOutput(FALSE, {}, <<>>, "")}

NoOutput == ModelOutput(FALSE, {}, <<>>, "")

\* PlayerSchema: name a string, urgency one of the three levels
PlayerSchema(p) == p.name # "" /\ p.urgency \in Levels

\* AnalysisOutputSchema: players, summary and confidence are required
\* the schema with confidence made optional
AnalysisOutputSchemaLax(o) ==
    /\ o.json /\ {"players", "summary"} \subseteq o.present
    /\ \A k \in 1..Len(o.players) : PlayerSchema(o.players[k])
    /\ o.confidence \in Levels \cup {""}

AnalysisOutputSchema(o) ==
    /\ o.json
    /\ AllKeys \subseteq o.present
    /\ \A k \in 1..Len(o.players) : PlayerSchema(o.players[k])
    /\ o.confidence \in Levels

\* experimental_output of an agent run that returned
AgentOutputs == {o \in ModelOutputs : AnalysisOutputSchema(o)}

\* the error of Output.object when the terminal text does not match the schema
TxtAgentError == <<"No object generated: response did not match schema.">>

\* the error of Output.object when the terminal text is not JSON
TxtAgentParseError == <<"No object generated: could not parse the response.">>

\* the error of a failed call of the model provider
TxtModelError == <<"Failed after 3 attempts. Last error: Service Unavailable">>

TxtEmptyTranscript == <<"Transcript not found or empty after transcription">>

TxtCatalogError == <<"YouTube API error (403): quotaExceeded">>

\* the findings passed on without the filter
HighUrgencyUnfiltered(players) == players

\* players.filter(player => player.urgency === 'HIGH')
HighUrgency(players) == SelectSeq(players, LAMBDA player : player.urgency = "HIGH")

EmptySummary ==
    [videosChecked |-> 0, newVideosFound |-> 0, videosProcessed |-> 0,
     transcriptionsSucceeded |-> 0, transcriptionsFailed |-> 0, analysesCompleted |-> 0,
     highUrgencyPlayersFound |-> 0, notificationsSent |-> 0, errors |-> <<>>]

IdleRun ==
    [pc |-> "idle", uploads |-> <<>>, newVideos |-> <<>>, k |-> 0,
     queuedVideos |-> <<>>, i |-> 0, summary |-> EmptySummary,
     transcription |-> NoText, result |-> NoOutput, err |-> NoText,
     response |-> 0, log |-> <<>>]

Ev(ev, id, info) == [ev |-> ev, id |-> id, info |-> info]

\* the video the per-item loop is at
Cur(rec) == rec.queuedVideos[rec.i]

\* the loop steps to the next queued video (summary.videosProcessed++), or ends
NextItem(rec) ==
    IF rec.i < Len(rec.queuedVideos)
    THEN [rec EXCEPT !.pc = "check", !.i = @ + 1, !.summary.videosProcessed = @ + 1]
    ELSE [rec EXCEPT !.pc = "finish"]

\* an error thrown inside the per-item try: the synchronous part of the catch block
Throw(rec, stage, message) ==
    [rec EXCEPT !.pc = "catch", !.err = message,
                !.summary.errors =
                    Append(@, <<"Failed to process video ">> \o ToStr(Cur(rec))
                                \o <<": ">> \o message),
                !.summary.transcriptionsFailed = @ + 1,
                !.log = Append(@, Ev("throw", Cur(rec), stage))]

\* an outer catch that cannot see the summary built inside the try
AbortLosingSummary(rec, message) ==
    [rec EXCEPT !.pc = "abort", !.err = message, !.summary = EmptySummary]

\* an error thrown outside the per-item try: control goes to the outer catch
Abort(rec, message) ==
    [rec EXCEPT !.pc = "abort", !.err = message]

StoreError(prefix, id) == prefix \o ToStr(id) \o <<": ">> \o TxtDbError

\* what a call of the notifier comes to: the webhook accepted the post, the fetch
\* threw or was answered with a non-2xx status (caught and logged), or no webhook
\* URL is configured (early return)
Deliveries == {"sent", "transport failed", "not configured"}

\* a store call rejects: one of the bounded number of store faults is spent
Fault == faultsLeft > 0 /\ faultsLeft' = faultsLeft - 1

NoFault == UNCHANGED faultsLeft

Set(r, rec) == run' = [run EXCEPT ![r] = rec]

\* process.env.CRON_SECRET: not set, or set to the secret the scheduler sends
CronSecrets == {"", "cron-secret"}

\* request.headers.get('authorization') of a request without the header
NoAuthorization == <<>>

\* `Bearer ${cronSecret}`
Bearer(cronSecret) == <<"Bearer ", cronSecret>>

\* the authorization headers a request may carry: none, the scheduler's, a guess
AuthHeaders == {NoAuthorization, Bearer("cron-secret"), Bearer("guess")}

\* the condition of the 401 answer: cronSecret && authHeader !== `Bearer ${cronSecret}`
Unauthorized(authHeader, cronSecret) ==
    cronSecret # "" /\ authHeader # Bearer(cronSecret)

\* the cron secret check answers 401 or lets the request through to step 1
Arrive(rec, authHeader, cronSecret) ==
    IF Unauthorized(authHeader, cronSecret)
    THEN [rec EXCEPT !.pc = "done", !.response = 401]
    ELSE [rec EXCEPT !.pc = "fetch"]

\* the request arrives
DStart(r) ==
    /\ run[r].pc = "idle"
    /\ \E authHeader \in AuthHeaders, cronSecret \in CronSecrets :
         Set(r, Arrive(run[r], authHeader, cronSecret))
    /\ UNCHANGED <<videos, transcripts, analysis, catalog, faultsLeft, workerVars, clientVars, manualVars, agentVars>>

\* the request arrives, its header and the configured secret being noted in the log
DStartLogged(r) ==
    /\ run[r].pc = "idle"
    /\ \E authHeader \in AuthHeaders, cronSecret \in CronSecrets :
         Set(r, Arrive([run[r] EXCEPT !.log = Append(@, Ev("request", 0,
                                          [authHeader |-> authHeader,
                                           cronSecret |-> cronSecret]))],
                       authHeader, cronSecret))
    /\ UNCHANGED <<videos, transcripts, analysis, catalog, faultsLeft, workerVars, clientVars, manualVars, agentVars>>

\* Step 1: listChannelUploads; on failure the error is recorded, an error
\* notification is sent and the run goes on with no uploads
DFetch(r) ==
    /\ run[r].pc = "fetch"
    /\ \/ Set(r, [run[r] EXCEPT !.pc = IF Len(catalog) > 0 THEN "select" ELSE "list",
                                !.uploads = catalog,
                                !.summary.videosChecked = Len(catalog)])
       \/ \E delivery \in Deliveries :
            Set(r, [run[r] EXCEPT !.pc = "list",
                                  !.summary.errors =
                                      Append(@, <<"Failed to fetch videos from YouTube: ">>
                                                  \o TxtCatalogError),
                                  !.log = @ \o <<Ev("alert", 0, "YouTube API fetch failed"),
                                                 Ev("alerted", 0, delivery)>>])
    /\ UNCHANGED <<videos, transcripts, analysis, catalog, faultsLeft, workerVars, clientVars, manualVars, agentVars>>

\* Step 2: selectVideoIds and the filter for new videos
DSelect(r) ==
    /\ run[r].pc = "select"
    /\ \/ /\ NoFault
          /\ LET existingIds == selectVideoIds(videos, {run[r].uploads[j] :
                                                          j \in 1..Len(run[r].uploads)})
                 newVideos == SelectSeq(run[r].uploads, LAMBDA id : id \notin existingIds)
             IN Set(r, [run[r] EXCEPT !.pc = IF newVideos = <<>> THEN "list" ELSE "save",
                                      !.newVideos = newVideos, !.k = 1])
       \/ /\ Fault
          /\ Set(r, Abort(run[r], <<"Failed to check existing videos: ">> \o TxtDbError))
    /\ UNCHANGED <<videos, transcripts, analysis, catalog, workerVars, clientVars, manualVars, agentVars>>

\* Step 2: one pass of the loop that saves a new video as queued
DSave(r) ==
    /\ run[r].pc = "save"
    /\ LET id == run[r].newVideos[run[r].k]
           next == IF run[r].k < Len(run[r].newVideos) THEN "save" ELSE "list"
       IN \/ /\ NoFault
             /\ videos' = upsertVideo(videos, id, "queued")
             /\ Set(r, [run[r] EXCEPT !.pc = next, !.k = @ + 1,
                                      !.summary.newVideosFound = @ + 1,
                                      !.log = Append(@, Ev("save", id, StatusOf(videos, id)))])
          \/ /\ Fault
             /\ UNCHANGED videos
             /\ Set(r, [run[r] EXCEPT !.pc = next, !.k = @ + 1,
                                      !.summary.errors =
                                          Append(@, <<"Failed to save video ">> \o ToStr(id)
                                                      \o <<": ">>
                                                      \o StoreError(<<"Failed to upsert video ">>, id))])
    /\ UNCHANGED <<transcripts, analysis, catalog, workerVars, clientVars, manualVars, agentVars>>

\* Step 3: getVideosByStatus('queued'), then the loop is entered
DList(r) ==
    /\ run[r].pc = "list"
    /\ \/ /\ NoFault
          /\ Set(r, NextItem([run[r] EXCEPT !.queuedVideos = getVideosByStatus(videos, "queued"),
                                            !.i = 0]))
       \/ /\ Fault
          /\ Set(r, Abort(run[r], <<"Failed to fetch videos with status queued: ">>
                                    \o TxtDbError))
    /\ UNCHANGED <<videos, transcripts, analysis, catalog, workerVars, clientVars, manualVars, agentVars>>

\* the idempotence check: fetchTranscriptByVideoId(video.id)
DCheck(r) ==
    /\ run[r].pc = "check"
    /\ \/ /\ NoFault
          /\ Set(r, [run[r] EXCEPT !.pc = IF HasTranscript(transcripts, Cur(run[r]))
                                          THEN "mark" ELSE "claim"])
       \/ /\ Fault
          /\ Set(r, Throw(run[r], "check",
                          StoreError(<<"Failed to fetch transcript for video ">>, Cur(run[r]))))
    /\ UNCHANGED <<videos, transcripts, analysis, catalog, workerVars, clientVars, manualVars, agentVars>>

\* Step 3a: upsertVideo({..., status: 'processing'})
DClaim(r) ==
    /\ run[r].pc = "claim"
    /\ \/ /\ NoFault
          /\ videos' = upsertVideo(videos, Cur(run[r]), "processing")
          /\ Set(r, [run[r] EXCEPT !.pc = "dispatch",
                                   !.log = Append(@, Ev("claim", Cur(run[r]),
                                                        StatusOf(videos, Cur(run[r]))))])
       \/ /\ Fault
          /\ UNCHANGED videos
          /\ Set(r, Throw(run[r], "claim",
                          StoreError(<<"Failed to upsert video ">>, Cur(run[r]))))
    /\ UNCHANGED <<transcripts, analysis, catalog, workerVars, clientVars, manualVars, agentVars>>

\* Step 3a: transcribeVideo returns or throws
DDispatch(r) ==
    /\ run[r].pc = "dispatch"
    /\ \E res \in DriverDispatchResults :
         IF res.ok
         THEN Set(r, [run[r] EXCEPT !.pc = "insert", !.transcription = res.text,
                                    !.log = Append(@, Ev("dispatch", Cur(run[r]), "ok"))])
         ELSE Set(r, Throw([run[r] EXCEPT
                                !.log = Append(@, Ev("dispatch", Cur(run[r]),
                                                     IF res.exhausted THEN "exhausted"
                                                     ELSE "stopped"))],
                           "dispatch", res.error))
    /\ UNCHANGED <<videos, transcripts, analysis, catalog, faultsLeft, workerVars, clientVars, manualVars, agentVars>>

\* Step 3a: insertTranscript, then summary.transcriptionsSucceeded++
DInsert(r) ==
    /\ run[r].pc = "insert"
    /\ \/ /\ NoFault
          /\ transcripts' = insertTranscript(transcripts, Cur(run[r]), run[r].transcription)
          /\ Set(r, [run[r] EXCEPT !.pc = "mark", !.summary.transcriptionsSucceeded = @ + 1])
       \/ /\ Fault
          /\ UNCHANGED transcripts
          /\ Set(r, Throw(run[r], "insert",
                          StoreError(<<"Failed to insert transcript for video ">>, Cur(run[r]))))
    /\ UNCHANGED <<videos, analysis, catalog, workerVars, clientVars, manualVars, agentVars>>

\* Step 3b: markVideoSucceeded
DMark(r) ==
    /\ run[r].pc = "mark"
    /\ \/ /\ NoFault
          /\ videos' = markVideoSucceeded(videos, Cur(run[r]))
          /\ Set(r, [run[r] EXCEPT !.pc = "reread",
                                   !.log = Append(@, Ev("succeeded", Cur(run[r]),
                                                        StatusOf(videos, Cur(run[r]))))])
       \/ /\ Fault
          /\ UNCHANGED videos
          /\ Set(r, Throw(run[r], "mark",
                          <<"Failed to mark video ">> \o ToStr(Cur(run[r]))
                            \o <<" as succeeded: ">> \o TxtDbError))
    /\ UNCHANGED <<transcripts, analysis, catalog, workerVars, clientVars, manualVars, agentVars>>

\* Step 3c: the transcript is read back; a missing or empty text throws
DReread(r) ==
    /\ run[r].pc = "reread"
    /\ \/ /\ NoFault
          /\ IF HasTranscript(transcripts, Cur(run[r]))
                /\ fetchTranscriptByVideoId(transcripts, Cur(run[r])) # NoText
             THEN Set(r, [run[r] EXCEPT !.pc = "agent"])
             ELSE Set(r, Throw(run[r], "reread", TxtEmptyTranscript))
       \/ /\ Fault
          /\ Set(r, Throw(run[r], "reread",
                          StoreError(<<"Failed to fetch transcript for video ">>, Cur(run[r]))))
    /\ UNCHANGED <<videos, transcripts, analysis, catalog, workerVars, clientVars, manualVars, agentVars>>

\* Step 3c: mustRosterAgent.generate returns an output or throws
DAgent(r) ==
    /\ run[r].pc = "agent"
    /\ \/ \E o \in ModelOutputs :
            IF AnalysisOutputSchema(o)
            THEN Set(r, [run[r] EXCEPT !.pc = "store", !.result = o])
            ELSE Set(r, Throw([run[r] EXCEPT !.log = Append(@, Ev("rejected", Cur(run[r]), o))],
                              "agent",
                              IF o.json THEN TxtAgentError ELSE TxtAgentParseError))
       \/ Set(r, Throw(run[r], "agent", TxtModelError))
    /\ UNCHANGED <<videos, transcripts, analysis, catalog, faultsLeft, workerVars, clientVars, manualVars, agentVars>>

\* Step 3c: upsertAnalysis, summary.analysesCompleted++, then the HIGH filter
DStore(r) ==
    /\ run[r].pc = "store"
    /\ \/ /\ NoFault
          /\ analysis' = upsertAnalysis(analysis, Cur(run[r]), "must_roster", run[r].result)
          /\ LET rec == [run[r] EXCEPT !.summary.analysesCompleted = @ + 1,
                                       !.log = @ \o
                                           <<Ev("analysis", Cur(run[r]),
                                                StatusOf(videos, Cur(run[r]))),
                                             Ev("players", Cur(run[r]),
                                                run[r].result.players)>>]
             IN IF Len(HighUrgency(run[r].result.players)) > 0
                THEN Set(r, [rec EXCEPT !.pc = "notify"])
                ELSE Set(r, NextItem(rec))
       \/ /\ Fault
          /\ UNCHANGED analysis
          /\ Set(r, Throw(run[r], "store",
                          <<"Failed to upsert analysis for video ">> \o ToStr(Cur(run[r]))
                            \o <<", agent must_roster: ">> \o TxtDbError))
    /\ UNCHANGED <<videos, transcripts, catalog, workerVars, clientVars, manualVars, agentVars>>

\* a notifier that lets a transport failure out of its try block
sendPlayerNotificationRethrowing(rec, players, delivery) ==
    LET called == [rec EXCEPT !.log = @ \o <<Ev("payload", Cur(rec), players),
                                             Ev("notify", Cur(rec), delivery)>>]
    IN IF delivery = "transport failed"
       THEN Throw(called, "notify", <<"Discord webhook failed: 503 Service Unavailable">>)
       ELSE called

\* sendPlayerNotification({players, ...}): returns when no webhook is configured;
\* otherwise posts the embed, and a rejected fetch or a non-2xx answer is caught
\* and logged inside ("Don't throw")
sendPlayerNotification(rec, players, delivery) ==
    [rec EXCEPT !.log = @ \o <<Ev("payload", Cur(rec), players),
                               Ev("notify", Cur(rec), delivery)>>]

\* Step 3d: sendPlayerNotification inside the per-item try, then the counters
DNotify(r) ==
    /\ run[r].pc = "notify"
    /\ \E delivery \in Deliveries :
         LET highUrgencyPlayers == HighUrgency(run[r].result.players)
             returned == sendPlayerNotification(run[r], highUrgencyPlayers, delivery)
         IN IF returned.pc = "catch"
            THEN Set(r, returned)
            ELSE Set(r, NextItem([returned EXCEPT
                      !.summary.highUrgencyPlayersFound = @ + Len(highUrgencyPlayers),
                      !.summary.notificationsSent = @ + 1]))
    /\ UNCHANGED <<videos, transcripts, analysis, catalog, faultsLeft, workerVars, clientVars, manualVars, agentVars>>

\* the per-item catch: markVideoFailed(video.id, message), then the next video
DCatch(r) ==
    /\ run[r].pc = "catch"
    /\ \/ /\ NoFault
          /\ videos' = markVideoFailed(videos, Cur(run[r]), run[r].err)
          /\ Set(r, NextItem([run[r] EXCEPT !.log = Append(@, Ev("failed", Cur(run[r]),
                                                                 StatusOf(videos, Cur(run[r]))))]))
       \/ /\ Fault
          /\ UNCHANGED videos
          /\ Set(r, Abort(run[r], <<"Failed to mark video ">> \o ToStr(Cur(run[r]))
                                    \o <<" as failed: ">> \o TxtDbError))
    /\ UNCHANGED <<transcripts, analysis, catalog, workerVars, clientVars, manualVars, agentVars>>

\* Step 4: the summary is returned
DFinish(r) ==
    /\ run[r].pc = "finish"
    /\ Set(r, [run[r] EXCEPT !.pc = "done", !.response = 200])
    /\ UNCHANGED <<videos, transcripts, analysis, catalog, faultsLeft, workerVars, clientVars, manualVars, agentVars>>

\* the outer catch: an error alert is sent and the partial summary returned
DAbort(r) ==
    /\ run[r].pc = "abort"
    /\ \E delivery \in Deliveries :
         Set(r, [run[r] EXCEPT !.pc = "done", !.response = 500,
                               !.log = @ \o <<Ev("alert", 0, "Critical automation failure"),
                                              Ev("alerted", 0, delivery)>>])
    /\ UNCHANGED <<videos, transcripts, analysis, catalog, faultsLeft, workerVars, clientVars, manualVars, agentVars>>

\* one step of the handler serving run r after the cron secret check
DriverWork(r) ==
    \/ DFetch(r) \/ DSelect(r) \/ DSave(r) \/ DList(r) \/ DCheck(r)
    \/ DClaim(r) \/ DDispatch(r) \/ DInsert(r) \/ DMark(r) \/ DReread(r)
    \/ DAgent(r) \/ DStore(r) \/ DNotify(r) \/ DCatch(r) \/ DFinish(r) \/ DAbort(r)

\* one step of the handler serving run r
DriverStep(r) == DStart(r) \/ DriverWork(r)

\* the same with the requests noted
CronNext == \E r \in Runs : DStartLogged(r) \/ DriverWork(r)

DriverNext == \E r \in Runs : DriverStep(r)

\* the runs are requested one after the other: runB once runA has been answered
InOrder(r) == r = "runA" \/ run["runA"].pc = "done"

TwiceNext == \E r \in Runs : InOrder(r) /\ DriverStep(r)

-----------------------------------------------------------------------------
(* Claims about the Extraction Worker (checked under SpecWorker)            *)

\* the request was received without a signature header, or its signature was made
\* over another body than the one received
MissingOrAltered(r) ==
    /\ wk[r].pc # "idle"
    /\ \/ wk[r].sig = NoHeader
       \/ \E b \in Bodies, s \in Secrets :
            b # wk[r].body /\ wk[r].sig = generateSignature(b, s)

\* C4: every request whose signature header is missing or whose body was altered
\* after signing is answered 401, has finished, and has started no download,
\* transcode or STT step and created no temp file path.
C4_SignatureRejection ==
    \A r \in Reqs :
      MissingOrAltered(r) =>
        /\ wk[r].pc = "done"
        /\ wk[r].resp.status = 401
        /\ wk[r].work = {}
        /\ wk[r].tempAudioFile = NoFile
        /\ wk[r].tempWavFile = NoFile

\* C4 witness: one request without a header and one whose body was altered after it
\* was signed with the worker's own secret have both been answered 401.
C4_Witness ==
    \E r1, r2 \in Reqs :
      /\ wk[r1].pc = "done" /\ wk[r1].sig = NoHeader /\ wk[r1].resp.status = 401
      /\ wk[r2].pc = "done" /\ wk[r2].resp.status = 401
      /\ \E b \in Bodies :
           b # wk[r2].body /\ wk[r2].sig = generateSignature(b, MEDIA_WORKER_SECRET)

\* C5: every request whose signature is absent or differs in any way from the code
\* recomputed over the received body is answered 401 (never 400 or 500).
C5_MismatchIs401 ==
    \A r \in Reqs :
      ( /\ wk[r].pc # "idle"
        /\ wk[r].sig # generateSignature(wk[r].body, MEDIA_WORKER_SECRET) )
        => wk[r].resp.status = 401

-----------------------------------------------------------------------------
(* Claims about the Dispatch Client (checked under SpecClient)              *)

\* an attempt that failed without a 4xx answer: a 5xx answer, a network error, a timeout
Transient(o) ==
    \/ o.kind \in {"network", "timeout"}
    \/ o.kind = "http" /\ o.status >= 500

\* an attempt the worker answered with a 4xx status
Answered4xx(o) == o.kind = "http" /\ o.status >= 400 /\ o.status < 500

\* C6: at most N = retries + 1 attempts are made; a success after k transient
\* failures is returned at attempt k + 1; when every attempt fails transiently,
\* exactly N attempts are made before the terminal failure.
C6_RetryBound ==
    /\ cl.made <= cl.retries + 1
    /\ cl.pc = "returned" =>
         /\ cl.made = Len(cl.outs)
         /\ \A k \in 1..(Len(cl.outs) - 1) : cl.outs[k].kind # "ok"
    /\ ( /\ cl.pc = "thrown"
         /\ \A k \in 1..Len(cl.outs) : Transient(cl.outs[k]) )
         => cl.made = cl.retries + 1

\* C7: an attempt the worker answers with a 4xx status is the last one: no further
\* attempt follows and the call ends in the terminal failure.
C7_No4xxRetry ==
    \A k \in 1..Len(cl.outs) :
      Answered4xx(cl.outs[k]) => k = Len(cl.outs) /\ cl.pc = "thrown"

\* C8: the retry loop ends before the attempts are used up only on a 4xx answer:
\* a failed attempt of any other kind is followed by another one while attempts remain.
C8_OtherFailuresRetried ==
    ( /\ cl.pc = "thrown"
      /\ cl.made < cl.retries + 1 )
      => Answered4xx(cl.outs[Len(cl.outs)])

-----------------------------------------------------------------------------
(* Claims about the Driver (checked under Spec and SpecBatch)               *)

Events(r, ev) == {run[r].log[k] : k \in {j \in 1..Len(run[r].log) : run[r].log[j].ev = ev}}

\* C1: of two overlapping runs at most one claims and dispatches a given item, and
\* a claim on an item that is not queued changes nothing.
C1_ClaimExclusive ==
    /\ \A r \in Runs : \A e \in Events(r, "claim") : e.info = "queued"
    /\ \A r1, r2 \in Runs :
         r1 # r2 =>
           {e.id : e \in Events(r1, "dispatch")} \cap {e.id : e \in Events(r2, "dispatch")} = {}

\* C2: within one batch run the status of an item changes only from queued to
\* processing, from processing to succeeded and from processing to failed (and from
\* unknown to queued on discovery).
C2_MonotonicTransitions ==
    [][\A id \in 1..MaxItems :
         StatusOf(videos, id) # StatusOf(videos', id) =>
           <<StatusOf(videos, id), StatusOf(videos', id)>> \in
             {<<"absent", "queued">>, <<"queued", "processing">>,
              <<"processing", "succeeded">>, <<"processing", "failed">>}]_vars

\* C3: an item marked succeeded after its transcript was persisted is still
\* succeeded at the end of the run when its agent invocation or the persistence of
\* its analysis failed afterwards.
C3_SucceededSurvivesAnalysisFailure ==
    \A r \in Runs :
      run[r].pc = "done" =>
        \A e \in Events(r, "throw") :
          ( /\ e.info \in {"agent", "store"}
            /\ \E s \in Events(r, "succeeded") : s.id = e.id )
            => StatusOf(videos, e.id) = "succeeded"

\* C9: when a run has returned, every item on which a step failed is failed with the
\* error message in its notes, and every queued item of the run was processed.
C9_BatchIsolation ==
    \A r \in Runs :
      (run[r].pc = "done" /\ Events(r, "throw") # {}) =>
        /\ \A e \in Events(r, "throw") :
             StatusOf(videos, e.id) = "failed" /\ NotesOf(videos, e.id) # NoText
        /\ run[r].i = Len(run[r].queuedVideos)
        /\ run[r].summary.videosProcessed = Len(run[r].queuedVideos)

\* the scenario of C10: the run returned normally, the catalog was fetched and all of
\* it was new, no store call failed, every dispatch returned a transcript or failed
\* on all of its attempts, and no agent invocation failed
EndToEndScenario(r) ==
    /\ run[r].pc = "done" /\ run[r].response = 200
    /\ run[r].uploads = catalog /\ run[r].newVideos = catalog
    /\ faultsLeft = MaxFaults
    /\ \A k \in 1..Len(catalog) :
         \E e \in Events(r, "dispatch") :
           e.id = catalog[k] /\ e.info \in {"ok", "exhausted"}
    /\ \A e \in Events(r, "throw") : e.info # "agent"

Extracted(r) == {e.id : e \in {d \in Events(r, "dispatch") : d.info = "ok"}}

\* C10: in that scenario an item is succeeded and has an analysis record exactly if
\* its extraction succeeded, is failed with non-empty notes otherwise, and the
\* summary counts all items as discovered, the extracted ones as succeeded and the
\* others as failed.
C10_EndToEnd ==
    \A r \in Runs :
      EndToEndScenario(r) =>
        /\ \A k \in 1..Len(catalog) :
             LET id == catalog[k] IN
             IF id \in Extracted(r)
             THEN /\ StatusOf(videos, id) = "succeeded"
                  /\ HasAnalysis(analysis, id, "must_roster")
             ELSE /\ StatusOf(videos, id) = "failed"
                  /\ NotesOf(videos, id) # NoText
                  /\ ~HasAnalysis(analysis, id, "must_roster")
        /\ run[r].summary.newVideosFound = Len(catalog)
        /\ run[r].summary.transcriptionsSucceeded = Cardinality(Extracted(r))
        /\ run[r].summary.transcriptionsFailed = Len(catalog) - Cardinality(Extracted(r))

-----------------------------------------------------------------------------
(* Claims about notification (checked under SpecRun)                       *)

\* the places of the log of run r holding an event ev about item id
Places(r, ev, id) ==
    {j \in 1..Len(run[r].log) : run[r].log[j].ev = ev /\ run[r].log[j].id = id}

HighFindings(players) == {players[k] : k \in {j \in 1..Len(players) : players[j].urgency = "HIGH"}}

\* the run is between the analysis of item id and the decision to notify about it
NotifyPending(r, id) == run[r].pc = "notify" /\ Cur(run[r]) = id

\* C13: for each item analysed in a batch run, once the run has gone past the
\* item's notification step: if the output holds a HIGH finding, notify was invoked
\* exactly once for the item, with exactly the HIGH findings; if it holds none,
\* notify was not invoked for the item
C13_ThresholdNotification ==
    \A r \in Runs : \A j \in 1..Len(run[r].log) :
      LET e == run[r].log[j]
      IN e.ev = "players" /\ ~NotifyPending(r, e.id) =>
           IF HighFindings(e.info) # {}
           THEN /\ Cardinality(Places(r, "payload", e.id)) = 1
                /\ \A k \in Places(r, "payload", e.id) :
                     LET sent == run[r].log[k].info
                     IN /\ {sent[n] : n \in 1..Len(sent)} = HighFindings(e.info)
                        /\ Len(sent) = Cardinality(HighFindings(e.info))
           ELSE Places(r, "payload", e.id) = {}

\* a finished run analysed one item with a HIGH and a LOW finding and notified of
\* the HIGH one alone, and one item with a MEDIUM finding and did not notify
C13_Witness ==
    /\ run["runA"].pc = "done"
    /\ \E j, k \in 1..Len(run["runA"].log) :
         LET e == run["runA"].log[j]
             f == run["runA"].log[k]
         IN /\ e.ev = "players" /\ Len(e.info) = 2
            /\ Cardinality(HighFindings(e.info)) = 1
            /\ Cardinality(Places("runA", "payload", e.id)) = 1
            /\ f.ev = "players" /\ Len(f.info) = 1 /\ HighFindings(f.info) = {}
            /\ Places("runA", "payload", f.id) = {}

\* the step of run r is a call of a notifier that ended in a transport failure
TransportFailed(r, ev) ==
    /\ Len(run'[r].log) > Len(run[r].log)
    /\ run'[r].log[Len(run'[r].log)] \in {Ev(ev, id, "transport failed") : id \in 0..MaxItems}

\* the step of run r leaves the store as it was and adds at most the n errors the
\* step records anyway to the summary, so the transport failure is not surfaced
Swallowed(r, n) ==
    /\ videos' = videos /\ transcripts' = transcripts /\ analysis' = analysis
    /\ Len(run'[r].summary.errors) = Len(run[r].summary.errors) + n
    /\ SubSeq(run'[r].summary.errors, 1, Len(run[r].summary.errors)) = run[r].summary.errors

\* C14: when the transport fails during a finding notification the notifier
\* returns normally, the item keeps status succeeded and its AnalysisRecord and the
\* run goes on with the next item (or ends normally after the last one); when it
\* fails during a system-error alert the run goes on as after a delivered alert: to
\* the queued items after a failed catalog fetch, to the 500 response with the
\* summary after a batch-level failure
C14_NotificationOutage ==
    /\ [][\A r \in Runs :
            /\ run[r].pc = "notify" /\ TransportFailed(r, "notify") =>
                 /\ Swallowed(r, 0)
                 /\ StatusOf(videos', Cur(run[r])) = "succeeded"
                 /\ AnalysisOf(analysis', Cur(run[r]), "must_roster") # {}
                 /\ run'[r].summary.transcriptionsFailed = run[r].summary.transcriptionsFailed
                 /\ IF run[r].i < Len(run[r].queuedVideos)
                    THEN run'[r].pc = "check" /\ run'[r].i = run[r].i + 1
                    ELSE run'[r].pc = "finish"
            /\ run[r].pc = "fetch" /\ TransportFailed(r, "alerted") =>
                 Swallowed(r, 1) /\ run'[r].pc = "list"
            /\ run[r].pc = "abort" /\ TransportFailed(r, "alerted") =>
                 /\ Swallowed(r, 0)
                 /\ run'[r].pc = "done" /\ run'[r].response = 500
                 /\ run'[r].summary = run[r].summary]_vars
    /\ [](\A r \in Runs : \A j \in 1..Len(run[r].log) :
            run[r].log[j].ev = "notify" =>
              /\ StatusOf(videos, run[r].log[j].id) = "succeeded"
              /\ AnalysisOf(analysis, run[r].log[j].id, "must_roster") # {}
              /\ \A k \in Places(r, "throw", run[r].log[j].id) : k < j)

\* a run whose notification of item 1's finding met a transport failure went on
\* to the next item and ended normally, item 1 succeeded with its analysis
C14_Witness ==
    /\ run["runA"].pc = "done" /\ run["runA"].response = 200
    /\ run["runA"].i = 2
    /\ \E j \in Places("runA", "notify", run["runA"].queuedVideos[1]) :
         run["runA"].log[j].info = "transport failed"
    /\ StatusOf(videos, run["runA"].queuedVideos[1]) = "succeeded"
    /\ AnalysisOf(analysis, run["runA"].queuedVideos[1], "must_roster") # {}

\* C15: when the agent's terminal output does not validate against the declared
\* output schema or cannot be parsed, the invocation ends in failure, no
\* AnalysisRecord is written for that item and no notification is sent for it; no
\* stored AnalysisRecord holds a defaulted (absent) confidence
C15_SchemaEnforcement ==
    /\ \A r \in Runs : \A j \in 1..Len(run[r].log) :
         LET e == run[r].log[j]
         IN e.ev = "rejected" =>
              /\ \E k \in Places(r, "throw", e.id) : k > j /\ run[r].log[k].info = "agent"
              /\ Places(r, "analysis", e.id) = {}
              /\ Places(r, "payload", e.id) = {}
              /\ AnalysisOf(analysis, e.id, "must_roster") = {}
    /\ \A a \in analysis :
         /\ a.confidence \in Levels
         /\ \A k \in 1..Len(a.players) : a.players[k].urgency \in Levels

\* a finished run in which the output for one item lacked the confidence field and
\* the output for another could not be parsed
C15_Witness ==
    /\ run["runA"].pc = "done"
    /\ \E j, k \in 1..Len(run["runA"].log) :
         LET e == run["runA"].log[j]
             f == run["runA"].log[k]
         IN /\ e.ev = "rejected" /\ e.info.json /\ "confidence" \notin e.info.present
            /\ f.ev = "rejected" /\ ~f.info.json
            /\ AnalysisOf(analysis, e.id, "must_roster") = {}

\* the run has returned and its catalog fetch had failed
CatalogUnavailable(r) ==
    /\ run[r].pc = "done"
    /\ \E e \in Events(r, "alert") : e.info = "YouTube API fetch failed"

\* the fetch was made once, its error is in the summary and nothing was discovered
FetchFailureRecorded(r) ==
    /\ Cardinality({j \in Places(r, "alert", 0) :
                      run[r].log[j].info = "YouTube API fetch failed"}) = 1
    /\ Len(run[r].summary.errors) >= 1
    /\ run[r].summary.errors[1] = <<"Failed to fetch videos from YouTube: ">> \o TxtCatalogError
    /\ run[r].uploads = <<>>
    /\ run[r].summary.videosChecked = 0
    /\ run[r].summary.newVideosFound = 0
    /\ Events(r, "save") = {}

\* every item of the store was taken up by the run: none is left queued
QueuedAllProcessed(r) ==
    /\ \A v \in videos : v.status # "queued"
    /\ run[r].summary.videosProcessed = Cardinality(videos)

C19_AbortKeepsSummary ==
    [][\A r \in Runs :
         /\ run[r].pc \in {"select", "list"} /\ faultsLeft' < faultsLeft =>
              run'[r].pc = "abort" /\ run'[r].summary = run[r].summary
         /\ run[r].pc = "abort" /\ run'[r] # run[r] =>
              /\ run'[r].pc = "done" /\ run'[r].response = 500
              /\ run'[r].summary = run[r].summary
              /\ run'[r].i = run[r].i
              /\ videos' = videos /\ transcripts' = transcripts /\ analysis' = analysis]_vars

\* a run saved the two ids it discovered, failed to list the queued items and
\* answered 500 with the counters of the discovery
C19_Witness ==
    /\ run["runA"].pc = "done" /\ run["runA"].response = 500
    /\ run["runA"].err = <<"Failed to fetch videos with status queued: ">> \o TxtDbError
    /\ run["runA"].summary.videosChecked = 2
    /\ run["runA"].summary.newVideosFound = 2
    /\ run["runA"].summary.videosProcessed = 0

\* the events of the per-item loop (discovery and alerts are not among them)
ItemEvents ==
    {"claim", "dispatch", "succeeded", "failed", "throw", "analysis", "players", "payload",
     "notify", "rejected"}

\* the places of the log of run r that hold an event of the per-item loop
ItemPlaces(r) == {j \in 1..Len(run[r].log) : run[r].log[j].ev \in ItemEvents}

\* the places of the log of run r that hold an event of the per-item loop for item id
ItemPlacesOf(r, id) == {j \in ItemPlaces(r) : run[r].log[j].id = id}

\* what run r did for one item lies in one stretch of its log: of two items, all
\* that was done for the one comes before all that was done for the other
OneItemAtATime(r) ==
    \A x, y \in 1..MaxItems :
      x # y =>
        \/ \A j \in ItemPlacesOf(r, x), k \in ItemPlacesOf(r, y) : j < k
        \/ \A j \in ItemPlacesOf(r, x), k \in ItemPlacesOf(r, y) : k < j

\* the step of run r begins the work on the next queued item
StartsNextItem(r) == run[r].i >= 1 /\ run'[r].i # run[r].i

\* C22: within a run at most one item is being dispatched, analysed or notified at
\* any moment; the driver starts on the next item only from the end of the current
\* item's work (its analysis stored, its notification call returned, or its failure
\* recorded), with no call of the current item outstanding and the current item
\* marked succeeded or failed
C22_StrictlySequential ==
    /\ [](\A r \in Runs : OneItemAtATime(r))
    /\ [][\A r \in Runs :
            StartsNextItem(r) =>
              /\ run'[r].i = run[r].i + 1
              /\ run[r].pc \in {"store", "notify", "catch"}
              /\ run'[r].pc = "check"
              /\ StatusOf(videos', Cur(run[r])) \in {"succeeded", "failed"}
              /\ \A j \in ItemPlaces(r) : run[r].log[j].id # Cur(run'[r])]_vars

\* a finished run dispatched, analysed and notified for two items, one after the
\* other
C22_Witness ==
    /\ run["runA"].pc = "done" /\ run["runA"].i = 2
    /\ \A k \in 1..2 :
         /\ Places("runA", "dispatch", run["runA"].queuedVideos[k]) # {}
         /\ Places("runA", "notify", run["runA"].queuedVideos[k]) # {}
    /\ \A j \in Places("runA", "notify", run["runA"].queuedVideos[1]) :
         \A k \in Places("runA", "claim", run["runA"].queuedVideos[2]) : j < k

\* the place of x in a sequence without repetitions (0 when it is not in it)
Pos(seq, x) == IF \E k \in 1..Len(seq) : seq[k] = x
               THEN CHOOSE k \in 1..Len(seq) : seq[k] = x ELSE 0

\* the items run r has taken up so far, in the order it took them up
Processed(r) == SubSeq(run[r].queuedVideos, 1, run[r].i)

\* the items run r has taken up follow the order in which its catalog scan
\* returned them
InListingOrder(r) ==
    \A x, y \in 1..MaxItems :
      ( /\ Pos(run[r].uploads, x) > 0 /\ Pos(run[r].uploads, y) > 0
        /\ Pos(run[r].uploads, x) < Pos(run[r].uploads, y)
        /\ Pos(Processed(r), x) > 0 /\ Pos(Processed(r), y) > 0 )
        => Pos(Processed(r), x) < Pos(Processed(r), y)

\* the catalog scan of run r returned the videos latest first
ListedNewestFirst(r) ==
    \A a, b \in 1..Len(run[r].uploads) :
      a < b => PublishedAt(run[r].uploads[a]) > PublishedAt(run[r].uploads[b])

\* C23 as stated: within one batch run the queued items are processed in the order
\* in which the catalog scan returned them
C23_CatalogListingOrder == \A r \in Runs : InListingOrder(r)

\* C23 amended: within one batch run the queued items are processed in descending
\* order of their stored publication time, whatever order the catalog scan returned
\* them in; that is the catalog-listing order when the scan returned the videos
\* latest first
C23_NewestFirst ==
    \A r \in Runs :
      /\ \A a, b \in 1..run[r].i :
           a < b => PublishedAt(run[r].queuedVideos[a]) > PublishedAt(run[r].queuedVideos[b])
      /\ ListedNewestFirst(r) => InListingOrder(r)

\* a finished run whose catalog scan listed video 1 before the later video 2 saved
\* both and processed video 2 first
C23_Witness ==
    /\ run["runA"].pc = "done" /\ run["runA"].response = 200
    /\ run["runA"].uploads = <<1, 2>>
    /\ run["runA"].i = 2 /\ run["runA"].queuedVideos = <<2, 1>>
    /\ \A j \in Places("runA", "succeeded", 2) :
         \A k \in Places("runA", "claim", 1) : j < k
    /\ Places("runA", "succeeded", 2) # {} /\ Places("runA", "claim", 1) # {}

\* the items run r has taken up and left in status failed
LeftFailed(r) ==
    {id \in {run[r].queuedVideos[k] : k \in 1..run[r].i} : StatusOf(videos, id) = "failed"}

\* C27: at the end of every batch run each processed item has been counted in
\* exactly one of the succeeded and failed counters, so processed = succeeded +
\* failed, and the number of items the run left failed equals the failed counter
C27_CounterConsistency ==
    \A r \in Runs :
      (run[r].pc = "done" /\ run[r].response = 200) =>
        /\ run[r].summary.videosProcessed =
             run[r].summary.transcriptionsSucceeded + run[r].summary.transcriptionsFailed
        /\ Cardinality(LeftFailed(r)) = run[r].summary.transcriptionsFailed

\* C28: every item a batch run moved to processing is succeeded or failed when the
\* run has returned its response, whether it completed normally or ended through
\* the batch-level failure path
C28_ClaimedItemsSettled ==
    \A r \in Runs :
      run[r].pc = "done" =>
        \A e \in Events(r, "claim") : StatusOf(videos, e.id) \in {"succeeded", "failed"}

\* the finding notifications of run r that the transport accepted
Posted(r) == {j \in 1..Len(run[r].log) :
                run[r].log[j].ev = "notify" /\ run[r].log[j].info = "sent"}

\* C29: the summary's notified counter counts only the notifications the transport
\* accepted: it is not incremented when the transport failure was swallowed or the
\* notification was skipped because no channel endpoint is configured
C29_NotifiedCountsPosted ==
    \A r \in Runs : run[r].summary.notificationsSent = Cardinality(Posted(r))

\* the request of run r carried the valid cron bearer secret
CarriesCronSecret(r) ==
    \E e \in Events(r, "request") :
      e.info.cronSecret # "" /\ e.info.authHeader = Bearer(e.info.cronSecret)

\* run r was answered 401 and did nothing else: no catalog fetch, no store write,
\* no dispatch, no notification
RejectedUntouched(r) ==
    /\ run[r].pc = "done" /\ run[r].response = 401
    /\ Len(run[r].log) = 1
    /\ run[r].uploads = <<>> /\ run[r].queuedVideos = <<>>
    /\ run[r].summary = EmptySummary
    /\ transcripts = {} /\ analysis = {}
    /\ \A v \in videos : v = VideoRow(v.id, "queued")

\* C25: a request to the batch-run endpoint that does not carry the valid cron
\* bearer secret is rejected as unauthorized, and a rejected request performs no
\* catalog fetch, no store write, no dispatch and no notification
C25_OnlyScheduler ==
    \A r \in Runs :
      (run[r].pc \notin {"idle", "off"} /\ ~CarriesCronSecret(r)) => RejectedUntouched(r)

-----------------------------------------------------------------------------
(* Claims about two runs in sequence (checked under SpecTwice)              *)

\* one Item per id, one Transcript per item, one AnalysisRecord per item and agent
NoDuplicates ==
    /\ \A v, w \in videos : v.id = w.id => v = w
    /\ \A t, u \in transcripts : t.video_id = u.video_id => t = u
    /\ \A a, b \in analysis :
         a.video_id = b.video_id /\ a.agent_type = b.agent_type => a = b

\* discovery writes an item only for an id the store did not hold, so the stored
\* fields of an item already present are left as they were
RediscoveryIsNoOp ==
    \A r \in Runs : \A e \in Events(r, "save") : e.info = "absent"

\* the run fetched the catalog, diffed it against the store and saved every id it
\* found new
DiscoveredAll(r) ==
    /\ run[r].pc = "done"
    /\ run[r].uploads = catalog
    /\ run[r].k > Len(run[r].newVideos)
    /\ run[r].summary.newVideosFound = Len(run[r].newVideos)

\* C11 as stated: running the pipeline twice in sequence over an unchanged catalog
\* leaves no duplicate Item, Transcript or AnalysisRecord, re-discovery of a stored
\* id changes nothing, and the second run reports discovered = 0
C11_SecondRunDiscoversNothing ==
    /\ NoDuplicates
    /\ RediscoveryIsNoOp
    /\ run["runB"].pc = "done" => run["runB"].summary.newVideosFound = 0

\* C11 amended: as above, the second run reporting discovered = 0 whenever the first
\* run fetched the catalog and saved every id it found new; a first run that was
\* refused, whose catalog fetch failed or whose save of an id failed leaves that id
\* to be discovered (once) by the second run
C11_Idempotence ==
    /\ NoDuplicates
    /\ RediscoveryIsNoOp
    /\ run["runB"].pc = "done" /\ DiscoveredAll("runA")
         => run["runB"].summary.newVideosFound = 0
    /\ \A r \in Runs : run[r].summary.newVideosFound = Cardinality(Events(r, "save"))

\* the first run discovered and saved the catalog, the second fetched the same
\* catalog and found nothing new
C11_Witness ==
    /\ DiscoveredAll("runA") /\ run["runA"].summary.newVideosFound > 0
    /\ run["runB"].pc = "done" /\ run["runB"].uploads = catalog
    /\ run["runB"].response = 200
    /\ run["runB"].summary.newVideosFound = 0

-----------------------------------------------------------------------------
(* Manual operations: POST /api/transcribe/:videoId and                     *)
(* POST /api/analysis/:videoId/:agentType                                   *)

\* a transcribe request before it arrives; `found` is the status the item had when
\* the request arrived
IdleTranscribe ==
    [pc |-> "idle", id |-> 0, found |-> "", text |-> NoText, err |-> NoText, resp |-> 0]

\* an analysis request before it arrives; `wrote` is the status the item had when
\* the request's upsertAnalysis was applied
IdleAnalysis ==
    [pc |-> "idle", id |-> 0, agentType |-> "", result |-> NoOutput, wrote |-> "",
     resp |-> 0]

\* the keys of AGENT_MAP
AgentTypes == {"must_roster", "watch_list", "drop", "injury_return"}

\* the agentType path parameters requested
RequestedAgentTypes == {"must_roster", "drop", "buy_low"}

\* the response is sent
Answer(rec, status) == [rec EXCEPT !.pc = "done", !.resp = status]

\* an error thrown inside the inner try of the transcribe route
TThrow(message) == [tr EXCEPT !.pc = "catch", !.err = message]

\* POST /api/transcribe/:videoId arrives; fetchTranscriptByVideoId answers
TStart ==
    /\ tr.pc = "idle"
    /\ \E id \in 1..Len(catalog) :
         LET req == [tr EXCEPT !.id = id, !.found = StatusOf(videos, id)]
         IN \/ /\ NoFault
               /\ tr' = IF HasTranscript(transcripts, id)
                        THEN Answer(req, 200)
                        ELSE [req EXCEPT !.pc = "claim"]
            \/ /\ Fault
               /\ tr' = Answer(req, 500)
    /\ UNCHANGED <<videos, transcripts, analysis, catalog, run, an, workerVars, clientVars, agentVars>>

\* getVideoDetails (null: 404; a rejection goes to the catch), then
\* upsertVideo({..., status: 'processing'})
TClaim ==
    /\ tr.pc = "claim"
    /\ \/ /\ NoFault
          /\ videos' = upsertVideo(videos, tr.id, "processing")
          /\ tr' = [tr EXCEPT !.pc = "dispatch"]
       \/ /\ NoFault
          /\ UNCHANGED videos
          /\ tr' \in {Answer(tr, 404), TThrow(TxtCatalogError)}
       \/ /\ Fault
          /\ UNCHANGED videos
          /\ tr' = TThrow(StoreError(<<"Failed to upsert video ">>, tr.id))
    /\ UNCHANGED <<transcripts, analysis, catalog, run, an, workerVars, clientVars, agentVars>>

\* transcribeVideo returns or throws
TDispatch ==
    /\ tr.pc = "dispatch"
    /\ \E res \in DriverDispatchResults :
         tr' = IF res.ok THEN [tr EXCEPT !.pc = "insert", !.text = res.text]
               ELSE TThrow(res.error)
    /\ UNCHANGED <<videos, transcripts, analysis, catalog, run, an, faultsLeft, workerVars, clientVars, agentVars>>

\* insertTranscript
TInsert ==
    /\ tr.pc = "insert"
    /\ \/ /\ NoFault
          /\ transcripts' = insertTranscript(transcripts, tr.id, tr.text)
          /\ tr' = [tr EXCEPT !.pc = "mark"]
       \/ /\ Fault
          /\ UNCHANGED transcripts
          /\ tr' = TThrow(StoreError(<<"Failed to insert transcript for video ">>, tr.id))
    /\ UNCHANGED <<videos, analysis, catalog, run, an, workerVars, clientVars, agentVars>>

\* markVideoSucceeded, then the 200 response
TMark ==
    /\ tr.pc = "mark"
    /\ \/ /\ NoFault
          /\ videos' = markVideoSucceeded(videos, tr.id)
          /\ tr' = Answer(tr, 200)
       \/ /\ Fault
          /\ UNCHANGED videos
          /\ tr' = TThrow(<<"Failed to mark video ">> \o ToStr(tr.id)
                            \o <<" as succeeded: ">> \o TxtDbError)
    /\ UNCHANGED <<transcripts, analysis, catalog, run, an, workerVars, clientVars, agentVars>>

\* the inner catch: markVideoFailed, then 500 'Transcription failed'; when
\* markVideoFailed rejects the outer catch answers 500 'Internal server error'
TCatch ==
    /\ tr.pc = "catch"
    /\ \/ NoFault /\ videos' = markVideoFailed(videos, tr.id, tr.err)
       \/ Fault /\ UNCHANGED videos
    /\ tr' = Answer(tr, 500)
    /\ UNCHANGED <<transcripts, analysis, catalog, run, an, workerVars, clientVars, agentVars>>

\* POST /api/analysis/:videoId/:agentType arrives: the agent type is looked up in
\* AGENT_MAP, then the transcript is fetched
AStart ==
    /\ an.pc = "idle"
    /\ \E id \in 1..Len(catalog), agentType \in RequestedAgentTypes :
         LET req == [an EXCEPT !.id = id, !.agentType = agentType]
         IN IF agentType \notin AgentTypes
            THEN NoFault /\ an' = Answer(req, 400)
            ELSE \/ /\ NoFault
                    /\ an' = IF ~HasTranscript(transcripts, id) THEN Answer(req, 404)
                             ELSE IF fetchTranscriptByVideoId(transcripts, id) = NoText
                                  THEN Answer(req, 400)
                                  ELSE [req EXCEPT !.pc = "agent"]
                 \/ /\ Fault
                    /\ an' = Answer(req, 500)
    /\ UNCHANGED <<videos, transcripts, analysis, catalog, run, tr, workerVars, clientVars, agentVars>>

\* agent.generate returns an output or throws
AAgent ==
    /\ an.pc = "agent"
    /\ \/ \E o \in ModelOutputs :
            an' = IF AnalysisOutputSchema(o) THEN [an EXCEPT !.pc = "store", !.result = o]
                  ELSE Answer(an, 500)
       \/ an' = Answer(an, 500)
    /\ UNCHANGED <<videos, transcripts, analysis, catalog, run, tr, faultsLeft, workerVars, clientVars, agentVars>>

\* upsertAnalysis, then the 200 response
AStore ==
    /\ an.pc = "store"
    /\ \/ /\ NoFault
          /\ analysis' = upsertAnalysis(analysis, an.id, an.agentType, an.result)
          /\ an' = Answer([an EXCEPT !.wrote = StatusOf(videos, an.id)], 200)
       \/ /\ Fault
          /\ UNCHANGED analysis
          /\ an' = Answer(an, 500)
    /\ UNCHANGED <<videos, transcripts, catalog, run, tr, workerVars, clientVars, agentVars>>

ManualNext ==
    \/ DriverNext
    \/ TStart \/ TClaim \/ TDispatch \/ TInsert \/ TMark \/ TCatch
    \/ AStart \/ AAgent \/ AStore

-----------------------------------------------------------------------------
(* The agent loop                                                           *)

\* the agents the repository defines
AgentKinds == {"buy_low", "must_roster", "sell_high", "drop", "watch_list"}

\* the argument of stepCountIs in every agent's stopWhen
StepCeiling == 3

\* steps a loop without a working stop condition is followed for
MaxSteps == 4

\* an invocation before generate is called; output is the last well-formed
\* structured output of the steps made so far
IdleAgent == [pc |-> "Idle", kind |-> "", stepNumber |-> 0, output |-> NoOutput,
              error |-> NoText]

\* a stop condition that never fires
stopWhenNever(kind, stepNumber) == FALSE

\* stopWhen: stepCountIs(3), the same for every agent kind
stopWhen(kind, stepNumber) == stepNumber >= StepCeiling

\* agent.generate({prompt}) is called
AgInvoke ==
    /\ ag.pc = "Idle"
    /\ \E kind \in AgentKinds : ag' = [ag EXCEPT !.pc = "Running", !.kind = kind, !.stepNumber = 1]
    /\ UNCHANGED <<workerVars, clientVars, driverVars, manualVars>>

\* the invocation ends: with the last well-formed output when there is one, as a
\* failure otherwise
Terminate(rec, o) ==
    IF AnalysisOutputSchema(o) THEN [rec EXCEPT !.pc = "Completed", !.output = o]
    ELSE [rec EXCEPT !.pc = "Failed",
                     !.error = IF o.json THEN TxtAgentError ELSE TxtAgentParseError]

\* one step of the loop: the model call fails; or it yields the terminal output,
\* which is validated; or it asks for another step, and then the stop condition is
\* evaluated: when it fires the loop ends, otherwise the next step begins
AgStep ==
    /\ ag.pc = "Running"
    /\ \/ ag' = [ag EXCEPT !.pc = "Failed", !.error = TxtModelError]
       \/ \E o \in ModelOutputs : ag' = Terminate(ag, o)
       \/ \E o \in ModelOutputs :
            LET made == IF AnalysisOutputSchema(o) THEN [ag EXCEPT !.output = o] ELSE ag
            IN IF stopWhen(ag.kind, ag.stepNumber)
               THEN ag' = Terminate(made, made.output)
               ELSE /\ ag.stepNumber < MaxSteps
                    /\ ag' = [made EXCEPT !.stepNumber = @ + 1]
    /\ UNCHANGED <<workerVars, clientVars, driverVars, manualVars>>

AgentNext == AgInvoke \/ AgStep

-----------------------------------------------------------------------------
(* Claims about manual operations beside a batch run (checked under         *)
(* SpecManual)                                                              *)

\* a write of a transcript or of an analysis leaves the written values as the one
\* row of its key
WritesOverwrite ==
    /\ tr.pc = "insert" /\ tr'.pc = "mark"
         => {u \in transcripts' : u.video_id = tr.id} = {[video_id |-> tr.id, text |-> tr.text]}
    /\ an.pc = "store" /\ an'.resp = 200
         => \A a \in AnalysisOf(analysis', an.id, an.agentType) :
              a.players = an.result.players /\ a.confidence = an.result.confidence
    /\ \A r \in Runs :
         /\ run[r].pc = "insert" /\ run'[r].pc = "mark"
              => {u \in transcripts' : u.video_id = Cur(run[r])}
                   = {[video_id |-> Cur(run[r]), text |-> run[r].transcription]}
         /\ run[r].pc = "store" /\ run'[r].pc \notin {"store", "catch"}
              => \A a \in AnalysisOf(analysis', Cur(run[r]), "must_roster") :
                   a.players = run[r].result.players

\* C12: under any interleaving of a batch run with manual transcribe and analysis
\* requests on the same item there is at every state at most one Transcript per
\* item id and at most one AnalysisRecord per (item id, agent kind), and each write
\* overwrites what was stored before
C12_NoDuplicateArtifacts ==
    /\ [](/\ \A t, u \in transcripts : t.video_id = u.video_id => t = u
          /\ \A id \in 1..Len(catalog), k \in AgentTypes :
               Cardinality(AnalysisOf(analysis, id, k)) <= 1)
    /\ [][WritesOverwrite]_vars

\* the batch run and the manual requests have each written the transcript and the
\* must_roster analysis of item 1
C12_Witness ==
    /\ run["runA"].summary.transcriptionsSucceeded = 1
    /\ run["runA"].summary.analysesCompleted = 1
    /\ tr.resp = 200 /\ tr.text # NoText
    /\ an.resp = 200 /\ an.agentType = "must_roster"
    /\ Cardinality(transcripts) = 1
    /\ Cardinality(analysis) = 1

\* C20: whenever an AnalysisRecord is created or updated, by the batch driver or by
\* the manual analysis operation, the owning item's status is succeeded at that
\* moment
C20_AnalysisOnlyWhenSucceeded ==
    /\ \A r \in Runs : \A e \in Events(r, "analysis") : e.info = "succeeded"
    /\ an.wrote \in {"", "succeeded"}

\* C21: in every reachable state an item whose status is succeeded has a persisted
\* Transcript, and every step of the driver or of the manual transcribe operation
\* that marks an item succeeded finds its transcript stored
C21_SucceededHasTranscript ==
    /\ [](\A v \in videos :
            v.status = "succeeded" => \E t \in transcripts : t.video_id = v.id)
    /\ [][\A id \in 1..Len(catalog) :
            StatusOf(videos, id) # "succeeded" /\ StatusOf(videos', id) = "succeeded"
              => \E t \in transcripts : t.video_id = id]_vars

\* the batch run and the manual transcribe request have both extracted item 1 and
\* marked it succeeded
C21_Witness ==
    /\ StatusOf(videos, 1) = "succeeded"
    /\ \E e \in Events("runA", "succeeded") : e.id = 1
    /\ \E e \in Events("runA", "dispatch") : e.id = 1 /\ e.info = "ok"
    /\ tr.pc = "done" /\ tr.resp = 200 /\ tr.text # NoText
    /\ \E t \in transcripts : t.video_id = 1

\* C26: an item that is processing or succeeded is skipped: the manual transcribe
\* operation starts no dispatch for an item that was processing or succeeded when
\* the request arrived, and the batch driver claims and dispatches no item that is
\* processing or succeeded when it takes the item up
C26_SkipBusyItems ==
    /\ tr.pc = "dispatch" => tr.found \notin {"processing", "succeeded"}
    /\ \A r \in Runs : \A e \in Events(r, "claim") :
         e.info \notin {"processing", "succeeded"}

-----------------------------------------------------------------------------
(* Specifications                                                           *)

\* no manual operation is requested
ManualOff ==
    /\ tr = [IdleTranscribe EXCEPT !.pc = "off"]
    /\ an = [IdleAnalysis EXCEPT !.pc = "off"]

\* no agent is invoked on its own
AgentOff == ag = [IdleAgent EXCEPT !.pc = "off"]

\* every order in which the catalog can list the ids
Orders(S) == {s \in [1..Cardinality(S) -> S] : \A a, b \in DOMAIN s : a # b => s[a] # s[b]}

\* the store before the runs: each id of the catalog unknown, or left queued by an
\* earlier discovery; the runs of `active` can be requested
DriverInit(active, ids) ==
    /\ \E Q \in SUBSET ids : videos = {VideoRow(id, "queued") : id \in Q}
    /\ transcripts = {}
    /\ analysis = {}
    /\ catalog \in Orders(ids)
    /\ run = [r \in Runs |-> IF r \in active THEN IdleRun ELSE [IdleRun EXCEPT !.pc = "off"]]
    /\ faultsLeft = MaxFaults

Init == WorkerInit /\ ClientInit /\ DriverInit(Runs, 1..MaxOverlapItems) /\ ManualOff /\ AgentOff

\* two batch runs that may overlap, over one store
Spec == Init /\ [][DriverNext]_vars

\* one batch run
InitBatch == WorkerInit /\ ClientInit /\ DriverInit({"runA"}, 1..MaxItems) /\ ManualOff /\ AgentOff

SpecBatch == InitBatch /\ [][DriverNext]_vars

\* one batch run over a catalog that lists the latest video first
InitRun ==
    /\ WorkerInit /\ ClientInit /\ ManualOff /\ AgentOff
    /\ \E Q \in SUBSET (1..MaxItems) : videos = {VideoRow(id, "queued") : id \in Q}
    /\ transcripts = {}
    /\ analysis = {}
    /\ catalog = OrderDesc(1..MaxItems)
    /\ run = [r \in Runs |-> IF r = "runA" THEN IdleRun ELSE [IdleRun EXCEPT !.pc = "off"]]
    /\ faultsLeft = MaxFaults

SpecRun == InitRun /\ [][DriverNext]_vars

\* a sequence read from its end
Reverse(s) == [k \in 1..Len(s) |-> s[Len(s) + 1 - k]]

\* one batch run over a catalog that lists the videos latest first or oldest first
InitListing ==
    /\ WorkerInit /\ ClientInit /\ ManualOff /\ AgentOff
    /\ \E Q \in SUBSET (1..MaxItems) : videos = {VideoRow(id, "queued") : id \in Q}
    /\ transcripts = {}
    /\ analysis = {}
    /\ catalog \in {OrderDesc(1..MaxItems), Reverse(OrderDesc(1..MaxItems))}
    /\ run = [r \in Runs |-> IF r = "runA" THEN IdleRun ELSE [IdleRun EXCEPT !.pc = "off"]]
    /\ faultsLeft = MaxFaults

SpecListing == InitListing /\ [][DriverNext]_vars

\* one batch run over one item, the request's authorization noted
InitCron == WorkerInit /\ ClientInit /\ DriverInit({"runA"}, {1}) /\ ManualOff /\ AgentOff

SpecCron == InitCron /\ [][CronNext]_vars

\* the pipeline run twice in sequence over one catalog
InitTwice ==
    WorkerInit /\ ClientInit /\ DriverInit(Runs, 1..MaxTwiceItems) /\ ManualOff /\ AgentOff

SpecTwice == InitTwice /\ [][TwiceNext]_vars

\* one batch run with a manual transcribe and a manual analysis request, all on the
\* same item
InitManual ==
    /\ WorkerInit /\ ClientInit /\ DriverInit({"runA"}, {1}) /\ AgentOff
    /\ tr = IdleTranscribe
    /\ an = IdleAnalysis

SpecManual == InitManual /\ [][ManualNext]_vars

\* no batch run is requested: the store is empty and stays so
DriverOff ==
    /\ videos = {}
    /\ transcripts = {}
    /\ analysis = {}
    /\ catalog = <<>>
    /\ run = [r \in Runs |-> [IdleRun EXCEPT !.pc = "off"]]
    /\ faultsLeft = 0

InitService == WorkerInit /\ ClientInit /\ DriverOff /\ ManualOff /\ AgentOff

\* the worker serving requests
SpecWorker == InitService /\ [][WorkerNext]_vars

\* one call of transcribeVideo
SpecClient == InitService /\ [][ClientNext]_vars

\* one call of transcribeVideo with up to MaxBackoffRetries retries
SpecBackoff == InitService /\ [][BackoffNext]_vars

\* agent invocations on their own; a step, being an awaited model call, is
\* eventually made
InitAgent == WorkerInit /\ ClientInit /\ DriverOff /\ ManualOff /\ ag = IdleAgent

SpecAgent == InitAgent /\ [][AgentNext]_vars /\ WF_vars(AgStep)

====
